---- MODULE Spec2Model ----
(***************************************************************************)
(* A model of PullRequestReviewer: main.py's three entry modes, the        *)
(* GitProcessorService operations they call, and BaseReviewer.review_diff  *)
(* with the OpenAI backend's get_response.                                 *)
(*                                                                         *)
(* Text (a model response, a comment) is a sequence of one-character       *)
(* strings, so that lower() and strip(" .") are computed as Python         *)
(* computes them.  An Optional value is a sequence of length 0 (None) or 1.*)
(* Difference objects live in `heap` and are referred to by their index,   *)
(* so that returning the same object and building a copy differ.           *)
(***************************************************************************)
EXTENDS Integers, Sequences, FiniteSets

VARIABLES
    args,          \* argparse namespace: which flags carry a truthy value
    key,           \* settings.OPENAI_API_KEY is non-empty
    pc,            \* the statement the run is at
    todo,          \* the calls still to make after the current one returns
    failure,       \* the exception that ended the run ("none" while running)
    net,           \* history: the network requests issued, in order
    repository,    \* GitProcessorService.repository is set
    pr_details,    \* GitProcessorService.pr_details (Optional)
    changes,       \* what master_commit.diff(target_commit) reported
    diff_details,  \* get_branch_diff's local list (object ids)
    differences,   \* main's `differences` (Optional list of object ids)
    heap,          \* the Difference objects created so far
    reviewed,      \* the records review_diff returned so far (object ids)
    responses,     \* history: each model call's outcome and what get_response returned
    posts,         \* history: the comment-creation requests, with outcome
    report         \* reviewed_diffs.txt (Optional list of records)

vars == <<args, key, pc, todo, failure, net, repository, pr_details, changes,
          diff_details, differences, heap, reviewed, responses, posts, report>>

----------------------------------------------------------------------------
(* Bounds *)

MaxChanges == 2
MaxPad == 2

\* prompts.py rule 5: "Your comment should not be longer than 500 characters."
MaxCommentLen == 500

----------------------------------------------------------------------------
(* Text *)

Last(s) == s[Len(s)]

UpperCase == <<"A","B","C","D","E","F","G","H","I","J","K","L","M",
               "N","O","P","Q","R","S","T","U","V","W","X","Y","Z">>
LowerCase == <<"a","b","c","d","e","f","g","h","i","j","k","l","m",
               "n","o","p","q","r","s","t","u","v","w","x","y","z">>

lower_char(c) ==
    IF \E k \in 1..Len(UpperCase) : UpperCase[k] = c
    THEN LowerCase[CHOOSE k \in 1..Len(UpperCase) : UpperCase[k] = c]
    ELSE c

\* str.lower()
lower(s) == [k \in 1..Len(s) |-> lower_char(s[k])]

RECURSIVE lstrip(_, _)
lstrip(s, chars) ==
    IF s # <<>> /\ s[1] \in chars THEN lstrip(Tail(s), chars) ELSE s

RECURSIVE rstrip(_, _)
rstrip(s, chars) ==
    IF s # <<>> /\ s[Len(s)] \in chars
    THEN rstrip(SubSeq(s, 1, Len(s) - 1), chars)
    ELSE s

\* str.strip(chars)
strip(s, chars) == rstrip(lstrip(s, chars), chars)

none_text == <<"n","o","n","e">>

\* review_agent.py line 23: response.lower().strip(" .") == "none"
is_none_whitespace(response) ==
    strip(lower(response), {" ", ".", "\n"}) = none_text
is_none(response) == strip(lower(response), {" ", "."}) = none_text

\* f"An error occurred: {e}"
error_text(e) ==
    <<"A","n"," ","e","r","r","o","r"," ","o","c","c","u","r","r","e","d",":"," ">> \o e

\* OpenAIReviewer.get_response: the content of the model's reply, or, when
\* the call raises, the error text.
\* `raised` says whether an exception leaves get_response; lines 65-66 catch
\* every Exception of the call, so none does.
get_response_propagates(outcome) ==
    [raised |-> ~outcome.ok, text |-> outcome.text]
get_response(outcome) ==
    [raised |-> FALSE,
     text |-> IF outcome.ok THEN outcome.text ELSE error_text(outcome.text)]

----------------------------------------------------------------------------
(* Difference records *)

None == <<>>
Some(x) == <<x>>

\* schemas.Difference(file=..., change_type=..., diff=...): the comment of a
\* new record is absent.
Difference(file, change_type, diff) ==
    [file |-> file, change_type |-> change_type, diff |-> diff, comment |-> None]

\* Python truthiness of an Optional[str]: None and "" are falsy.
falsy(opt) == opt = None \/ opt[1] = <<>>

\* BaseReviewer.review_diff on the object d of heap h: the heap afterwards
\* and the object returned.
review_diff_in_place(h, d, response) ==
    IF is_none(response)
    THEN [heap |-> h, ret |-> d]
    ELSE [heap |-> [h EXCEPT ![d].comment = Some(response)], ret |-> d]
review_diff_clamped(h, d, response) ==
    IF is_none(response)
    THEN [heap |-> h, ret |-> d]
    ELSE [heap |-> Append(h, [h[d] EXCEPT !.comment =
                     Some(SubSeq(response, 1, IF Len(response) < MaxCommentLen
                                              THEN Len(response) ELSE MaxCommentLen))]),
          ret |-> Len(h) + 1]
review_diff(h, d, response) ==
    IF is_none(response)
    THEN [heap |-> h, ret |-> d]
    ELSE [heap |-> Append(h, [h[d] EXCEPT !.comment = Some(response)]),
          ret |-> Len(h) + 1]

\* GitProcessorService.determine_position; a diff text is held as its lines.
determine_position(d) == Len(d.diff) - 1

----------------------------------------------------------------------------
(* The version-control engine's report: master_commit.diff(target_commit,   *)
(* create_patch=True) is a list of Diff entries, one per file change.       *)

ChangeTypes == {"A", "D", "M", "R", "C", "T"}

PathOrder == <<"a.py", "b.py", "c.py">>
Paths == {PathOrder[k] : k \in DOMAIN PathOrder}
PathIndex(p) == CHOOSE k \in DOMAIN PathOrder : PathOrder[k] = p

\* Diff.a_path / Diff.b_path are None when the side does not exist; None is
\* falsy under Python's `or`, as the empty string is (no path is empty).
NoPath == ""

\* Diff.diff: bytes that decode as UTF-8 to a text (held as its lines) or do not.
three_lines == <<"@@ -1 +1 @@", "-x", "+y">>

Patches ==
    { [utf8 |-> FALSE, text |-> <<>>],
      [utf8 |-> TRUE,  text |-> <<>>],
      [utf8 |-> TRUE,  text |-> three_lines] }

\* The paths each change type carries.  The patch of an added or modified
\* file has hunks; that of a rename, copy or type change here is the pure
\* structural change, with no text; that of a deletion is tried both ways.
WellFormedEntry(e) ==
    /\ CASE e.change_type = "A" -> e.a_path = NoPath /\ e.b_path # NoPath
         [] e.change_type = "D" -> e.a_path # NoPath /\ e.b_path = NoPath
         [] e.change_type \in {"M", "T"} -> e.a_path # NoPath /\ e.b_path = e.a_path
         [] e.change_type \in {"R", "C"} ->
               e.a_path # NoPath /\ e.b_path # NoPath /\ e.a_path # e.b_path
    /\ e.patch.utf8 =>
         CASE e.change_type \in {"A", "M"} -> e.patch.text # <<>>
           [] e.change_type \in {"R", "C", "T"} -> e.patch.text = <<>>
           [] OTHER -> TRUE

DiffEntries ==
    { e \in [a_path : Paths \cup {NoPath}, b_path : Paths \cup {NoPath},
             change_type : ChangeTypes, patch : Patches] : WellFormedEntry(e) }

\* The path an entry is listed under: the new path, or the old one of a deletion.
ChangePath(e) == IF e.b_path # NoPath THEN e.b_path ELSE e.a_path

\* A change set as git reports it: one entry per changed path, in path order;
\* the source of a rename is gone from the target tree and is the source of
\* nothing else; the source of a copy existed in the base tree.
WellFormedChanges(cs) ==
    /\ \A j \in 1..(Len(cs) - 1) :
           PathIndex(ChangePath(cs[j])) < PathIndex(ChangePath(cs[j + 1]))
    /\ \A j \in DOMAIN cs : cs[j].change_type = "R" =>
           \A k \in DOMAIN cs \ {j} :
               cs[j].a_path \notin {cs[k].a_path, cs[k].b_path}
    /\ \A j \in DOMAIN cs : cs[j].change_type = "C" =>
           \A k \in DOMAIN cs :
               ChangePath(cs[k]) = cs[j].a_path => cs[k].change_type \in {"M", "T", "D"}

ChangeSets ==
    UNION { { cs \in [1..n -> DiffEntries] : WellFormedChanges(cs) } : n \in 0..MaxChanges }

----------------------------------------------------------------------------
(* External outcomes *)

\* What the chat call does: a reply with some content, or an exception e.
ModelOutcomes ==
    { [ok |-> TRUE,  text |-> <<"N","o","n","e">>],
      [ok |-> TRUE,  text |-> <<"F","i","x",".">>],
      [ok |-> TRUE,  text |-> <<>>],
      [ok |-> FALSE, text |-> <<"n","o","n","e">>] }

\* requests.post: a 2xx response, a non-2xx response, or no response at all
\* (requests.exceptions.ConnectionError and the like).
PostOutcomes == {"2xx", "non2xx", "no_response"}

\* The payload fields of the pull request the comment endpoint is built from.
PullRequest ==
    [number |-> "42", ref |-> "feature-x", sha |-> "abc123",
     owner |-> "owner", repo |-> "repo"]

----------------------------------------------------------------------------
(* main.py *)

Mode ==
    IF args.pull_request_url THEN "pr"
    ELSE IF args.repo_url /\ args.branch THEN "repo"
    ELSE IF args.local_repo_path /\ args.branch THEN "local"
    ELSE "usage"

\* compare_pull_request's body, as the calls it makes in order.
compare_pull_request_resolve_first ==
    <<"get_branch_name_from_url", "clone_repository", "get_branch_diff">>
compare_pull_request ==
    <<"clone_repository", "get_branch_name_from_url", "get_branch_diff">>

\* The calls of each branch of main's dispatch, in order.
Program(mode) ==
    CASE mode = "pr"    -> compare_pull_request \o <<"review_diff">>
      [] mode = "repo"  -> <<"clone_repository", "get_branch_diff",
                             "review_diffs", "write_report">>
      [] mode = "local" -> <<"set_local_repository", "get_branch_diff",
                             "review_diffs", "write_report">>
      [] OTHER          -> <<>>

Flags(pr, repo, local, branch) ==
    [pull_request_url |-> pr, repo_url |-> repo,
     local_repo_path |-> local, branch |-> branch]

\* The command lines tried: each mode alone and shadowing the modes after it,
\* and every combination of flags that matches no mode.
CommandLines ==
    { Flags(TRUE, FALSE, FALSE, FALSE), Flags(TRUE, TRUE, TRUE, TRUE),
      Flags(FALSE, TRUE, FALSE, TRUE), Flags(FALSE, TRUE, TRUE, TRUE),
      Flags(FALSE, FALSE, TRUE, TRUE) }
    \cup { Flags(FALSE, repo, local, FALSE) : repo \in BOOLEAN, local \in BOOLEAN }
    \cup { Flags(FALSE, FALSE, FALSE, TRUE) }

Init ==
    /\ args \in CommandLines
    /\ key \in BOOLEAN
    /\ pc = "construct"
    /\ todo = <<>>
    /\ failure = "none"
    /\ net = <<>>
    /\ repository = FALSE
    /\ pr_details = None
    /\ changes = <<>>
    /\ diff_details = <<>>
    /\ differences = None
    /\ heap = <<>>
    /\ reviewed = <<>>
    /\ responses = <<>>
    /\ posts = <<>>
    /\ report = None

\* An exception nothing catches: the run ends.
Raise(kind) ==
    /\ pc' = "aborted"
    /\ failure' = kind
    /\ UNCHANGED todo

\* The current call returns: go on with the next one, or the run is over.
Return ==
    /\ pc' = IF todo = <<>> THEN "done" ELSE Head(todo)
    /\ todo' = IF todo = <<>> THEN <<>> ELSE Tail(todo)
    /\ UNCHANGED failure

\* main.py lines 15-16: GitProcessorService(), OpenAIReviewer().
Construct ==
    /\ pc = "construct"
    /\ IF key
       THEN pc' = "dispatch" /\ UNCHANGED <<todo, failure>>
       ELSE Raise("credential")
    /\ UNCHANGED <<args, key, net, repository, pr_details, changes, diff_details,
                   differences, heap, reviewed, responses, posts, report>>

\* main.py lines 18, 24, 32, 40-41: the branch taken.
Dispatch ==
    /\ pc = "dispatch"
    /\ IF Mode = "usage"
       THEN Raise("usage")
       ELSE /\ pc' = Head(Program(Mode))
            /\ todo' = Tail(Program(Mode))
            /\ UNCHANGED failure
    /\ UNCHANGED <<args, key, net, repository, pr_details, changes, diff_details,
                   differences, heap, reviewed, responses, posts, report>>

\* GitProcessorService.clone_repository
CloneRepository ==
    /\ pc = "clone_repository"
    /\ net' = Append(net, "clone")
    /\ \E cloned \in BOOLEAN :
          IF cloned
          THEN repository' = TRUE /\ Return
          ELSE Raise("clone") /\ UNCHANGED repository
    /\ UNCHANGED <<args, key, pr_details, changes, diff_details, differences,
                   heap, reviewed, responses, posts, report>>

\* GitProcessorService.set_local_repository
SetLocalRepository ==
    /\ pc = "set_local_repository"
    /\ \E opened \in BOOLEAN :
          IF opened
          THEN repository' = TRUE /\ Return
          ELSE Raise("open") /\ UNCHANGED repository
    /\ UNCHANGED <<args, key, net, pr_details, changes, diff_details, differences,
                   heap, reviewed, responses, posts, report>>

\* GitProcessorService.get_branch_name_from_url: parse_github_url, then
\* get_pull_request_details (a GET, raise_for_status), then keep the payload.
GetBranchNameFromUrl ==
    /\ pc = "get_branch_name_from_url"
    /\ net' = Append(net, "get_pr")
    /\ \E status \in {"2xx", "non2xx"} :
          IF status = "2xx"
          THEN pr_details' = Some(PullRequest) /\ Return
          ELSE Raise("api") /\ UNCHANGED pr_details
    /\ UNCHANGED <<args, key, repository, changes, diff_details, differences,
                   heap, reviewed, responses, posts, report>>

\* get_branch_diff line 85: fetch_all_branches
FetchAllBranches ==
    /\ pc = "get_branch_diff"
    /\ net' = Append(net, "fetch")
    /\ \E fetched \in BOOLEAN :
          IF fetched
          THEN pc' = "resolve_refs" /\ UNCHANGED <<todo, failure>>
          ELSE Raise("fetch")
    /\ UNCHANGED <<args, key, repository, pr_details, changes, diff_details,
                   differences, heap, reviewed, responses, posts, report>>

\* get_branch_diff lines 86-88: origin.refs.master, origin.refs[branch_name]
ResolveRefs ==
    /\ pc = "resolve_refs"
    /\ \E refs \in {"both", "no_master", "no_branch"} :
          CASE refs = "both"      -> pc' = "diff" /\ UNCHANGED <<todo, failure>>
            [] refs = "no_master" -> Raise("diff")
            [] refs = "no_branch" -> Raise("branch")
    /\ UNCHANGED <<args, key, net, repository, pr_details, changes, diff_details,
                   differences, heap, reviewed, responses, posts, report>>

\* get_branch_diff lines 90-91: the engine reports the changes
Diff ==
    /\ pc = "diff"
    /\ \E cs \in ChangeSets : changes' = cs
    /\ diff_details' = <<>>
    /\ pc' = "diff_loop"
    /\ UNCHANGED <<args, key, todo, failure, net, repository, pr_details,
                   differences, heap, reviewed, responses, posts, report>>

\* get_branch_diff line 94
file_of(e) == IF e.a_path # NoPath THEN e.a_path ELSE e.b_path

\* get_branch_diff lines 92-99, one iteration of the loop or the return; a
\* patch that does not decode raises out of the loop (lines 102-103).
DiffLoopSwallowsDecodeError ==
    /\ pc = "diff_loop"
    /\ IF Len(diff_details) = Len(changes) \/ ~changes[Len(diff_details) + 1].patch.utf8
       THEN /\ differences' = Some(diff_details)
            /\ Return
            /\ UNCHANGED <<heap, diff_details>>
       ELSE LET e == changes[Len(diff_details) + 1] IN
            /\ heap' = Append(heap, Difference(file_of(e), e.change_type,
                                            e.patch.text))
            /\ diff_details' = Append(diff_details, Len(heap) + 1)
            /\ UNCHANGED <<pc, todo, failure, differences>>
    /\ UNCHANGED <<args, key, net, repository, pr_details, changes,
                   reviewed, responses, posts, report>>
DiffLoop ==
    /\ pc = "diff_loop"
    /\ IF Len(diff_details) = Len(changes)
       THEN /\ differences' = Some(diff_details)
            /\ Return
            /\ UNCHANGED <<heap, diff_details>>
       ELSE LET e == changes[Len(diff_details) + 1] IN
            IF e.patch.utf8
            THEN /\ heap' = Append(heap, Difference(file_of(e), e.change_type,
                                                 e.patch.text))
                 /\ diff_details' = Append(diff_details, Len(heap) + 1)
                 /\ UNCHANGED <<pc, todo, failure, differences>>
            ELSE /\ Raise("decode")
                 /\ UNCHANGED <<heap, diff_details, differences>>
    /\ UNCHANGED <<args, key, net, repository, pr_details, changes,
                   reviewed, responses, posts, report>>

\* One call of reviewer.review_diff on the next difference: get_response
\* (a model call), then review_diff's decision.
ReviewNext(outcome, after) ==
    LET d == differences[1][Len(reviewed) + 1]
        got == get_response(outcome)
        res == review_diff(heap, d, got.text)
    IN /\ net' = Append(net, "model")
       /\ IF got.raised
          THEN Raise("model") /\ UNCHANGED <<responses, heap, reviewed>>
          ELSE /\ responses' = Append(responses, [outcome |-> outcome, text |-> got.text])
               /\ heap' = res.heap
               /\ reviewed' = Append(reviewed, res.ret)
               /\ pc' = after
               /\ UNCHANGED <<todo, failure>>

\* main.py lines 20-21: the loop head and reviewer.review_diff(difference)
ReviewDiff ==
    /\ pc = "review_diff"
    /\ IF Len(reviewed) = Len(differences[1])
       THEN Return /\ UNCHANGED <<net, responses, heap, reviewed>>
       ELSE \E outcome \in ModelOutcomes : ReviewNext(outcome, "comment_on_diff")
    /\ UNCHANGED <<args, key, repository, pr_details, changes, diff_details,
                   differences, posts, report>>

\* GitProcessorService.comment_on_diff on the record just reviewed
\* (main.py line 23).
CommentOnDiffNoGuard ==
    /\ pc = "comment_on_diff"
    /\ LET d == heap[Last(reviewed)] IN
       \E status \in PostOutcomes :
            /\ net' = Append(net, "post")
            /\ posts' = Append(posts,
                  [body |-> IF d.comment = None THEN <<>> ELSE d.comment[1],
                   commit_id |-> pr_details[1].sha,
                   path |-> d.file, position |-> determine_position(d),
                   pull |-> pr_details[1].number, status |-> status])
            /\ IF status = "no_response"
               THEN Raise("post")
               ELSE pc' = "review_diff" /\ UNCHANGED <<todo, failure>>
    /\ UNCHANGED <<args, key, repository, pr_details, changes, diff_details,
                   differences, heap, reviewed, responses, report>>
CommentOnDiffRaises ==
    /\ pc = "comment_on_diff"
    /\ LET d == heap[Last(reviewed)] IN
       IF falsy(d.comment)
       THEN /\ pc' = "review_diff"
            /\ UNCHANGED <<todo, failure, net, posts>>
       ELSE \E status \in PostOutcomes :
            /\ net' = Append(net, "post")
            /\ posts' = Append(posts,
                  [body |-> d.comment[1], commit_id |-> pr_details[1].sha,
                   path |-> d.file, position |-> determine_position(d),
                   pull |-> pr_details[1].number, status |-> status])
            /\ IF status = "2xx"
               THEN pc' = "review_diff" /\ UNCHANGED <<todo, failure>>
               ELSE Raise(IF status = "non2xx" THEN "http_error" ELSE "post")
    /\ UNCHANGED <<args, key, repository, pr_details, changes, diff_details,
                   differences, heap, reviewed, responses, report>>
CommentOnDiff ==
    /\ pc = "comment_on_diff"
    /\ LET d == heap[Last(reviewed)] IN
       IF falsy(d.comment)
       THEN /\ pc' = "review_diff"
            /\ UNCHANGED <<todo, failure, net, posts>>
       ELSE \E status \in PostOutcomes :
            /\ net' = Append(net, "post")
            /\ posts' = Append(posts,
                  [body |-> d.comment[1], commit_id |-> pr_details[1].sha,
                   path |-> d.file, position |-> determine_position(d),
                   pull |-> pr_details[1].number, status |-> status])
            /\ IF status = "no_response"
               THEN Raise("post")
               ELSE pc' = "review_diff" /\ UNCHANGED <<todo, failure>>
    /\ UNCHANGED <<args, key, repository, pr_details, changes, diff_details,
                   differences, heap, reviewed, responses, report>>

\* BaseReviewer.review_diffs, one element of the comprehension or its end,
\* with the model's behaviour drawn from `outcomes`.
ReviewDiffsWith(outcomes) ==
    /\ pc = "review_diffs"
    /\ IF Len(reviewed) = Len(differences[1])
       THEN Return /\ UNCHANGED <<net, responses, heap, reviewed>>
       ELSE \E outcome \in outcomes : ReviewNext(outcome, "review_diffs")
    /\ UNCHANGED <<args, key, repository, pr_details, changes, diff_details,
                   differences, posts, report>>

ReviewDiffs == ReviewDiffsWith(ModelOutcomes)

\* main.py lines 28-31 / 36-39: the report file
WriteReport ==
    /\ pc = "write_report"
    /\ report' = Some([k \in 1..Len(reviewed) |-> heap[reviewed[k]]])
    /\ Return
    /\ UNCHANGED <<args, key, net, repository, pr_details, changes, diff_details,
                   differences, heap, reviewed, responses, posts>>

Next ==
    \/ Construct
    \/ Dispatch
    \/ CloneRepository
    \/ SetLocalRepository
    \/ GetBranchNameFromUrl
    \/ FetchAllBranches
    \/ ResolveRefs
    \/ Diff
    \/ DiffLoop
    \/ ReviewDiff
    \/ CommentOnDiff
    \/ ReviewDiffs
    \/ WriteReport

Spec == Init /\ [][Next]_vars

----------------------------------------------------------------------------
(* review_diff as a function: one record, any reply *)

\* The records handed to review_diff: fresh from get_branch_diff (no
\* comment) or already carrying one.
ReviewInputs ==
    { [Difference("a.py", ct, txt) EXCEPT !.comment = c] :
        ct \in {"M", "D"}, txt \in {<<>>, three_lines},
        c \in {None, Some(<<"o","l","d">>)} }

PadChars == {" ", ".", "\n"}
Pads == UNION { [1..n -> PadChars] : n \in 0..MaxPad }

Cores ==
    { <<"n","o","n","e">>, <<"N","o","n","e">>, <<"N","O","N","E">>,
      <<"n","O","n","E">>, <<"n","o","n">>, <<"n","o",".","n","e">>,
      <<"x","n","o","n","e">>, <<"F","i","x",".">>, <<>>,
      <<"n","o","n","e","n","o","m","i","n","a","l">> }

long_text == [k \in 1..(MaxCommentLen + 1) |-> "x"]

ReviewTexts ==
    { pre \o core \o post : pre \in Pads, core \in Cores, post \in Pads }
    \cup {long_text}

ReviewOutcomes ==
    { [ok |-> TRUE, text |-> t] : t \in ReviewTexts }
    \cup { [ok |-> FALSE, text |-> e] : e \in {<<>>, <<"n","o","n","e">>} }

InitReview ==
    /\ args = Flags(FALSE, TRUE, FALSE, TRUE)
    /\ key = TRUE
    /\ pc = "review_diffs"
    /\ todo = <<"write_report">>
    /\ failure = "none"
    /\ net = <<"clone", "fetch">>
    /\ repository = TRUE
    /\ pr_details = None
    /\ changes = <<>>
    /\ diff_details = <<1>>
    /\ differences = Some(<<1>>)
    /\ \E d \in ReviewInputs : heap = <<d>>
    /\ reviewed = <<>>
    /\ responses = <<>>
    /\ posts = <<>>
    /\ report = None

NextReview ==
    \/ ReviewDiffsWith(ReviewOutcomes)
    \/ WriteReport

SpecReview == InitReview /\ [][NextReview]_vars

----------------------------------------------------------------------------
(* Properties *)

Terminated == pc \in {"done", "aborted"}

Diffs == differences[1]

\* Python truthiness of the comment of object o
Commented(o) == ~falsy(heap[o].comment)

\* In the history of network requests, every b comes after some a.
Before(a, b) ==
    \A k \in DOMAIN net : net[k] = b => \E j \in 1..(k - 1) : net[j] = a

\* r, lowercased and trimmed of leading and trailing spaces and periods, is
\* "none": stated on the characters of r, not by computing the trimming.
NoneLike(r) ==
    \E a \in 0..Len(r) :
        /\ Len(r) >= a + 4
        /\ \A k \in 1..a : r[k] \in {" ", "."}
        /\ r[a + 1] \in {"n", "N"}
        /\ r[a + 2] \in {"o", "O"}
        /\ r[a + 3] \in {"n", "N"}
        /\ r[a + 4] \in {"e", "E"}
        /\ \A k \in (a + 5)..Len(r) : r[k] \in {" ", "."}

\* C1: in pull-request mode a comment the platform rejects (a non-2xx
\* response) does not abort the run: the step that gets the rejection goes
\* back to the loop head; the only failure that leaves the loop is a request
\* that got no response; and a run that ended without such a request has
\* reviewed every difference and sent one request per commented record, the
\* ones after a rejected comment included.
C1_RejectedCommentDoesNotAbort ==
    /\ [][ (posts' # posts /\ Last(posts').status = "non2xx")
             => (pc' = "review_diff" /\ failure' = "none") ]_vars
    /\ [](failure = "post" => Last(posts).status = "no_response")
    /\ []( ( /\ Mode = "pr" /\ Terminated /\ differences # None
             /\ \A k \in DOMAIN posts : posts[k].status # "no_response" )
           => /\ pc = "done"
              /\ Len(reviewed) = Len(Diffs)
              /\ Len(posts) = Cardinality({k \in DOMAIN reviewed : Commented(reviewed[k])}) )

\* C1 witness: a finished pull-request run in which the first comment was
\* rejected and a later one was still submitted.
C1_Witness ==
    /\ Mode = "pr" /\ pc = "done"
    /\ Len(posts) >= 2
    /\ posts[1].status = "non2xx"
    /\ posts[2].status = "2xx"

\* C2: a failing model call never ends the run: get_response turns it into
\* the text "An error occurred: <e>", review_diff returns a record carrying
\* that text as its comment, and the batch goes on: a run that got its diff
\* list and is done has reviewed every difference, and one that aborted after
\* that did so on a comment request that got no response.
C2_ModelFailureIsolated ==
    /\ failure # "model"
    /\ \A k \in DOMAIN responses :
          ~responses[k].outcome.ok =>
             /\ heap[reviewed[k]].comment =
                  Some(<<"A","n"," ","e","r","r","o","r"," ","o","c","c","u","r",
                         "r","e","d",":"," ">> \o responses[k].outcome.text)
             /\ heap[reviewed[k]].file = heap[Diffs[k]].file
    /\ (pc = "done" /\ differences # None) => Len(reviewed) = Len(Diffs)
    /\ (pc = "aborted" /\ differences # None) => failure = "post"

\* C2 witness: a finished run whose first model call failed and which
\* reviewed another difference after it.
C2_Witness ==
    /\ pc = "done"
    /\ Len(responses) >= 2
    /\ ~responses[1].outcome.ok
    /\ Len(reviewed) = Len(Diffs)

\* Each comment request directly follows the model call of its own record,
\* and no model call happens before the diff list is complete.
ReviewAndSubmitOrder ==
    /\ \A k \in DOMAIN net : net[k] = "post" => k > 1 /\ net[k - 1] = "model"
    /\ \A k \in DOMAIN posts :
          \E j \in DOMAIN reviewed : Commented(reviewed[j]) /\ posts[k].path = heap[reviewed[j]].file
    /\ Len(posts) <= Len(reviewed)
    /\ (\E k \in DOMAIN net : net[k] = "model") =>
          /\ differences # None
          /\ Len(Diffs) = Len(changes)
    /\ Before("fetch", "model")

C4_NoneRule ==
    \A k \in DOMAIN reviewed :
        LET in  == heap[Diffs[k]]
            out == heap[reviewed[k]]
            r   == responses[k].text
        IN /\ NoneLike(r) => reviewed[k] = Diffs[k] /\ out = in
           /\ ~NoneLike(r) => out = [in EXCEPT !.comment = Some(r)]
           /\ in.comment = None => (out = in <=> NoneLike(r))

\* C4 witness: the reply " none. " gave the input back, its comment absent.
C4_Witness ==
    /\ Len(reviewed) = 1
    /\ responses[1].text = <<" ","n","o","n","e","."," ">>
    /\ reviewed[1] = Diffs[1]
    /\ heap[reviewed[1]].comment = None

\* C5: a run that failed on clone, fetch, a missing branch or an undecodable
\* patch is over, has no diff list, and has made no model call and no comment
\* request; and a diff list, once returned, is complete: every patch of the
\* change set decoded and every change has its record.
C5_RepositoryFailureFatal ==
    /\ failure \in {"clone", "fetch", "branch", "decode"} =>
          /\ pc = "aborted"
          /\ differences = None
          /\ reviewed = <<>> /\ responses = <<>> /\ posts = <<>> /\ report = None
          /\ \A k \in DOMAIN net : net[k] \notin {"model", "post"}
    /\ differences # None =>
          /\ Len(Diffs) = Len(changes)
          /\ \A k \in DOMAIN changes : changes[k].patch.utf8

\* C5 witness: the second patch did not decode; the record of the first was
\* built and is not returned.
C5_Witness ==
    /\ failure = "decode"
    /\ Len(diff_details) = 1
    /\ differences = None

\* C6: a comment request is only ever sent for a record whose comment is
\* present, and a pull-request run in which every reply was "None" got every
\* record back as it was and sent no comment request.
C6_NoCommentNoRequest ==
    /\ [][ posts' # posts => heap[Last(reviewed)].comment # None ]_vars
    /\ []( ( /\ Mode = "pr"
             /\ \A k \in DOMAIN responses : responses[k].text = <<"N","o","n","e">> )
           => /\ \A k \in DOMAIN reviewed :
                    reviewed[k] = Diffs[k] /\ heap[reviewed[k]].comment = None
              /\ posts = <<>>
              /\ \A k \in DOMAIN net : net[k] # "post" )

\* C6 witness: a finished pull-request run over two differences, both
\* answered "None", without a comment request.
C6_Witness ==
    /\ Mode = "pr" /\ pc = "done"
    /\ Len(reviewed) = 2
    /\ \A k \in DOMAIN responses : responses[k].text = <<"N","o","n","e">>
    /\ posts = <<>>

\* C7 as stated: when the flags match no mode, the run ends with the usage
\* error and has issued no network request.
C7_UsageErrorBeforeNetwork ==
    (Mode = "usage" /\ Terminated) => (failure = "usage" /\ net = <<>>)

\* The comment of a record is absent or a non-empty text of at most 500
\* characters.
WithinLimit(comment) ==
    comment = None \/ (Len(comment[1]) >= 1 /\ Len(comment[1]) <= MaxCommentLen)

\* C8 as stated: every record has a comment that is absent or non-empty and
\* at most 500 characters long, whatever the model replied.
C8_CommentBounded ==
    \A o \in DOMAIN heap : WithinLimit(heap[o].comment)

\* C8 amended: the comment of a record review_diff returns is the input's
\* comment or exactly the text get_response returned, never cut; so it is
\* within the limit when the input's comment and the returned text are.
C8_CommentIsRawResponse ==
    \A k \in DOMAIN reviewed :
        LET in  == heap[Diffs[k]]
            out == heap[reviewed[k]]
            r   == responses[k].text
        IN /\ out.comment \in {in.comment, Some(r)}
           /\ (WithinLimit(in.comment) /\ WithinLimit(Some(r))) => WithinLimit(out.comment)

\* C8 witness: a reply of 501 characters became the comment as it is.
C8_Witness ==
    /\ Len(reviewed) = 1
    /\ Len(responses[1].text) = MaxCommentLen + 1
    /\ heap[reviewed[1]].comment = Some(responses[1].text)

\* C9 as stated: the list get_branch_diff returns has one record per reported
\* change and no two records with the same file.
C9_OneRecordPerFile ==
    differences # None =>
        /\ Len(Diffs) = Len(changes)
        /\ \A j, k \in DOMAIN Diffs :
              j # k => heap[Diffs[j]].file # heap[Diffs[k]].file

\* C10: no step changes a record that exists: every object of the heap is the
\* same after the step as before it (review_diff attaches a comment to a new
\* record).
C10_RecordsNeverChange ==
    [][ \A o \in DOMAIN heap : o \in DOMAIN heap' /\ heap'[o] = heap[o] ]_vars

\* C10 witness: a reviewed record carries a comment and the record it was
\* made from still has none.
C10_Witness ==
    \E k \in DOMAIN reviewed :
        /\ reviewed[k] # Diffs[k]
        /\ heap[Diffs[k]].comment = None
        /\ heap[reviewed[k]].comment # None

====
